---- MODULE Spec2Model ----
(***************************************************************************)
(* Layout engine of the Google-Doc-to-PDF converter                        *)
(* (src/backend/pdfGenerator.js): generatePDF, processSectionContent,      *)
(* processContentLine with its checkForPageBreak, and addFormattedText.    *)
(*                                                                         *)
(* Lengths are integers in hundredths of a point, so that the A4 page      *)
(* height of jsPDF (841.89pt) is exact.  A content line is a sequence of   *)
(* one-character strings.                                                  *)
(***************************************************************************)
EXTENDS Integers, Sequences, FiniteSets, TLC

\* ------------------------------------------------------------------ bounds
MaxSections == 2
MaxLines == 2
MaxWrap == 2
MaxTitleLines == 23
MaxSubtitleLines == 2
MaxBrandLines == 2
MaxTextLen == 7
MaxLineLen == 5
MaxEvents == 2

\* ---------------------------------------------------------- page geometry
Unit == 100
PageHeight == 84189
PageWidth == 59528
Margin == 50 * Unit
FooterHeight == 80 * Unit
EffectivePageHeight == PageHeight - FooterHeight
\* a sub-line is taken to need one point more than it advances
ParagraphLineHeightTall == 18 * Unit + Unit

ParagraphLineHeight == 18 * Unit

VARIABLES
  pc,          \* position in generatePDF
  nSections,   \* sections.length
  secIdx,      \* number of sections whose processing has started
  isFirstSection,
  lineIdx,     \* content lines of the current section already processed
  wrapIdx,     \* wrapped sub-lines of the current paragraph already drawn
  y,           \* yPosition of processSectionContent / y of processContentLine
  pages,       \* the pages of the jsPDF document
  curPage,     \* the page the document draws on
  pageCount,   \* the pageCount local of the footer pass
  footerI,     \* the loop variable i of the footer pass
  result,      \* what generatePDF returned
  errors,      \* errors thrown out of generatePDF
  errCause,    \* what made generatePDF throw
  failedChecks,\* fit checks that found insufficient space
  lastCheck,   \* the latest fit check of the section being processed
  lastDraw,    \* the latest text draw
  curLine,     \* the line of the paragraph being drawn
  doc,         \* the { brandName, sections } argument, when it is given in full
  log,         \* the cover and section text draws of a document given in full
  textColor,   \* the text colour of the pdf object
  fPc,         \* position in one addFormattedText call
  fText, fX, fY, \* its arguments
  fLastIndex,  \* lastIndex, which is also boldTextRegex.lastIndex
  fCurrentX,   \* currentX
  fDraws,      \* the pdf.text calls it issued
  uPc,         \* position in the convertDocument call of the page
  btnDisabled, \* convertBtn.disabled
  btnText,     \* convertBtn.textContent
  barsShown,   \* loading and progressBar carry the class show
  fill,        \* progressFill.style.width, in percent
  intervals,   \* the width local of every running simulateProgress interval
  msgShown,    \* message carries the class show
  msgType,     \* the type class of message
  obsPending,  \* the MutationObserver callback is queued
  hideTimers,  \* seconds left on every pending hide timeout
  msgAge,      \* seconds since the message now shown was shown
  events,      \* user events handled so far
  callMsgs,    \* showMessage calls of the latest convertDocument call
  callResets,  \* resetForm calls of the latest convertDocument call
  respOk,      \* how the fetch of the latest call settled and how its blob() did
  wPc,         \* position in the paragraph branch of processContentLine
  wLine,       \* its line
  wrappedLines,\* what pdf.splitTextToSize(line, usableWidth) returned
  wIdx,        \* the loop variable i of lines 72-76
  wDraws       \* the pdf.text calls of the sub-lines drawn so far

genVars == <<pc, nSections, secIdx, isFirstSection, lineIdx, wrapIdx, y, pages,
             curPage, pageCount, footerI, result, errors, errCause,
             failedChecks, lastCheck, lastDraw, curLine, doc, log, textColor>>
fmtVars == <<fPc, fText, fX, fY, fLastIndex, fCurrentX, fDraws>>
uiVars == <<uPc, btnDisabled, btnText, barsShown, fill, intervals, msgShown,
            msgType, obsPending, hideTimers, msgAge, events, callMsgs,
            callResets, respOk>>
wrapVars == <<wPc, wLine, wrappedLines, wIdx, wDraws>>
vars == <<pc, nSections, secIdx, isFirstSection, lineIdx, wrapIdx, y, pages,
          curPage, pageCount, footerI, result, errors, errCause,
          failedChecks, lastCheck, lastDraw, curLine, doc, log, textColor, fPc,
          fText, fX, fY,
          fLastIndex, fCurrentX, fDraws, uPc, btnDisabled, btnText, barsShown,
          fill, intervals, msgShown, msgType, obsPending, hideTimers, msgAge,
          events, callMsgs, callResets, respOk, wPc, wLine, wrappedLines,
          wIdx, wDraws>>

\* ------------------------------------------------------- line classifier
IsSpace(c) == c = " "

\* the space after the two hashes is not asked for
Heading2TestNoSpace(line) == Len(line) >= 2 /\ line[1] = "#" /\ line[2] = "#"

\* /^## (.*)/
Heading2Test(line) ==
  Len(line) >= 3 /\ line[1] = "#" /\ line[2] = "#" /\ line[3] = " "

\* /^### (.*)/
Heading3Test(line) ==
  Len(line) >= 4 /\ line[1] = "#" /\ line[2] = "#" /\ line[3] = "#" /\ line[4] = " "

\* /^[\s]*[-*]\s+(.*)/
BulletTest(line) ==
  \E k \in 0..Len(line) :
    /\ \A i \in 1..k : IsSpace(line[i])
    /\ Len(line) >= k + 2
    /\ line[k + 1] \in {"-", "*"}
    /\ IsSpace(line[k + 2])

\* line.trim() === ''
TrimIsEmpty(line) == \A i \in 1..Len(line) : IsSpace(line[i])

SampleLines ==
  { <<"#", "#", " ", "a">>, <<"#", "#", "#", " ", "a">>,
    <<"-", " ", "a">>, <<" ", "*", " ", "a">>,
    <<>>, <<" ">>, <<"a">>, <<" ", "#", "#", " ", "a">>, <<"#", "#", "a">> }

\* --------------------------------------------------------------- document
BlankPage == [first |-> "none", owners |-> {}, footers |-> <<>>]

\* pdf.addPage(): a new blank page, which becomes the current page
AddPage(ps) == Append(ps, BlankPage)

\* pdf.text(...) on page p by section sec (0 is the cover)
DrawOn(ps, p, kind, sec) ==
  [ps EXCEPT ![p] = [@ EXCEPT !.first = IF @ = "none" THEN kind ELSE @,
                              !.owners = @ \cup {sec}]]

\* pdf.setTextColor(128, 128, 128) and the colour a new jsPDF starts with,
\* which is also pdf.setTextColor(0, 0, 0)
Gray == <<128, 128, 128>>
Black == <<0, 0, 0>>

\* the footer colour is left in effect
ColorAfterFooterKept == Gray

\* line 239: the colour after a footer has been stamped
ColorAfterFooter == Black

NoCheck == [y |-> 0, h |-> 0, added |-> FALSE]
NoDraw == [kind |-> "none", page |-> 0, y |-> 0, sec |-> 0, line |-> 0, src |-> <<>>]

\* the footer zone is forgotten in the comparison
CheckFailsWholePage(yy, requiredHeight) == PageHeight - yy < requiredHeight

\* checkForPageBreak: is the remaining space insufficient
CheckFails(yy, requiredHeight) == EffectivePageHeight - yy < requiredHeight

\* checkForPageBreak: the cursor it returns
CheckForPageBreak(yy, requiredHeight) ==
  IF CheckFails(yy, requiredHeight) THEN Margin ELSE yy

\* the check is made again on the new page and adds a second one
CheckPagesRepeated(ps, yy, requiredHeight) ==
  IF CheckFails(yy, requiredHeight) THEN AddPage(AddPage(ps)) ELSE ps

\* checkForPageBreak: the pages it leaves
CheckPages(ps, yy, requiredHeight) ==
  IF CheckFails(yy, requiredHeight) THEN AddPage(ps) ELSE ps

\* less space is asked for than the heading's lead takes
Heading2RequiredSmall == 10 * Unit

Heading2Required == 40 * Unit
Heading3Required == 35 * Unit
BulletRequired == 18 * Unit

\* a blank line leaves the cursor where it was
BlankAdvanceNone == 0 * Unit

\* processContentLine line 62: y + 12
BlankAdvance == 12 * Unit

\* the page is added for every section, not only for the first
GenAddsPageAlways(first) == TRUE

\* generatePDF: if (isFirstSection) pdf.addPage()
GenAddsPage(first) == first

\* later sections go on without a page of their own
SectionAddsPageNever(first) == FALSE

\* processSectionContent: if (!isFirstSection) pdf.addPage()
SectionAddsPage(first) == ~first

\* the catch block hands back what has been drawn so far
ResultOnErrorPartial == "arraybuffer"

\* what generatePDF hands back when the catch block runs
ResultOnError == "none"

\* the cover is left out of the count
GetNumberOfPagesNoCover(ps) == Len(ps) - 1

\* pdf.getNumberOfPages()
GetNumberOfPages(ps) == Len(ps)

\* the footer loop starts at the cover
FirstFooterPageCover == 2 - 1

\* the footer loop: for (let i = 2; ...)
FirstFooterPage == 2

\* the footer is put two margins above the bottom edge
FooterYInContent == PageHeight - Margin * 2

\* line 236: the y of the footer text, pageHeight - margin / 2
FooterY == PageHeight - Margin \div 2

\* the footer numbers pages with the cover counted
PageTextPhysical(i, count) == [page |-> i, of |-> count]

\* the text of a footer: `Page ${i - 1} of ${pageCount - 1}`
PageText(i, count) == [page |-> i - 1, of |-> count - 1]

\* ------------------------------------------------------ addFormattedText
\* "**" at the 0-based index i of text
IsMarker(text, i) == i + 2 <= Len(text) /\ text[i + 1] = "*" /\ text[i + 2] = "*"

\* the 0-based indices where /\*\*(.*?)\*\*/ can match at or after from
MatchStarts(text, from) ==
  { i \in from..Len(text) :
      IsMarker(text, i) /\ \E j \in (i + 2)..Len(text) : IsMarker(text, j) }

Min(S) == CHOOSE m \in S : \A n \in S : m <= n

\* an opening marker with no closing one is matched up to the end of the text
BoldExecToEnd(text, from) ==
  LET opens == { i \in from..Len(text) : IsMarker(text, i) }
  IN IF opens = {}
     THEN [found |-> FALSE, index |-> 0, close |-> 0]
     ELSE LET i == Min(opens)
              closes == { j \in (i + 2)..Len(text) : IsMarker(text, j) }
          IN [found |-> TRUE, index |-> i,
              close |-> IF closes = {} THEN Len(text) ELSE Min(closes)]

\* boldTextRegex.exec(text) with boldTextRegex.lastIndex = from: the leftmost
\* opening marker that has a closing one, and the nearest closing marker
BoldExec(text, from) ==
  IF MatchStarts(text, from) = {}
  THEN [found |-> FALSE, index |-> 0, close |-> 0]
  ELSE LET i == Min(MatchStarts(text, from))
       IN [found |-> TRUE, index |-> i,
           close |-> Min({ j \in (i + 2)..Len(text) : IsMarker(text, j) })]

\* text.replace(/\*\*(.*?)\*\*/g, '$1'): every matched pair loses its markers
RECURSIVE StripBold(_)
StripBold(text) ==
  LET match == BoldExec(text, 0)
  IN IF ~match.found THEN text
     ELSE SubSeq(text, 1, match.index)
          \o SubSeq(text, match.index + 3, match.close)
          \o StripBold(SubSeq(text, match.close + 3, Len(text)))

\* pdf.getTextWidth under the font set last: bold glyphs are wider
TextWidth(text, font) == Len(text) * (IF font = "bold" THEN 7 * Unit ELSE 6 * Unit)

\* the text is put one line below the y it was given
TextDrawBelow(text, font, x, yy) ==
  [text |-> text, font |-> font, x |-> x, y |-> yy + ParagraphLineHeight]

TextDraw(text, font, x, yy) == [text |-> text, font |-> font, x |-> x, y |-> yy]

\* lines 91-105: the body of the while loop for the match found from
\* st.lastIndex, on the locals st = [lastIndex, currentX, draws]
WhileStep(text, st, yy) ==
  LET match == BoldExec(text, st.lastIndex)
      beforeBold == SubSeq(text, st.lastIndex + 1, match.index)
      boldText == SubSeq(text, match.index + 3, match.close)
      x1 == IF beforeBold # <<>>
            THEN st.currentX + TextWidth(beforeBold, "normal") ELSE st.currentX
      d1 == IF beforeBold # <<>>
            THEN Append(st.draws, TextDraw(beforeBold, "normal", st.currentX, yy))
            ELSE st.draws
  IN [lastIndex |-> match.close + 2,
      currentX |-> x1 + TextWidth(boldText, "bold"),
      draws |-> Append(d1, TextDraw(boldText, "bold", x1, yy))]

\* lines 108-119: the remaining text, then the no-bold case
AfterLoop(text, st, yy) ==
  LET remaining == SubSeq(text, st.lastIndex + 1, Len(text))
      d1 == IF remaining # <<>>
            THEN Append(st.draws, TextDraw(remaining, "normal", st.currentX, yy))
            ELSE st.draws
  IN IF st.lastIndex = 0
     THEN Append(d1, TextDraw(text, "normal", st.currentX, yy))
     ELSE d1

RECURSIVE FormattedDraws(_, _, _)
FormattedDraws(text, st, yy) ==
  IF BoldExec(text, st.lastIndex).found
  THEN FormattedDraws(text, WhileStep(text, st, yy), yy)
  ELSE AfterLoop(text, st, yy)

\* addFormattedText(pdf, text, x, y) run to its end: the pdf.text calls it issues
AddFormattedText(text, x, yy) ==
  FormattedDraws(text, [lastIndex |-> 0, currentX |-> x, draws |-> <<>>], yy)

FmtChars == {"a", " ", "*"}

RECURSIVE TextsOfLen(_)
TextsOfLen(n) ==
  IF n = 0 THEN {<<>>}
  ELSE { Append(t, c) : t \in TextsOfLen(n - 1), c \in FmtChars }

Texts == UNION { TextsOfLen(n) : n \in 0..MaxTextLen }

\* ------------------------------------------------- a document given in full
\* With NoDocument the inputs are drawn step by step from the bounded sets;
\* with a given document they are read from it, and every one of its texts
\* is short enough for splitTextToSize to return it as a single line.
NoDocument == [given |-> FALSE, brandName |-> <<>>, sections |-> <<>>]

Section(title, subtitle, hasContent, content) ==
  [title |-> title, subtitle |-> subtitle, hasContent |-> hasContent,
   content |-> content]

Document(brandName, sections) ==
  [given |-> TRUE, brandName |-> brandName, sections |-> sections]

LineChars == {"#", " ", "-", "*", "a"}

RECURSIVE LinesOfLen(_)
LinesOfLen(n) ==
  IF n = 0 THEN {<<>>}
  ELSE { Append(t, c) : t \in LinesOfLen(n - 1), c \in LineChars }

AllLines == UNION { LinesOfLen(n) : n \in 0..MaxLineLen }

AcmeDoc ==
  Document(<<"A", "c", "m", "e">>,
    <<Section(<<"O", "v", "e", "r", "v", "i", "e", "w">>,
              <<"I", "n", "t", "r", "o">>, TRUE,
              <<<<"#", "#", " ", "G", "o", "a", "l", "s">>,
                <<"-", " ", "G", "r", "o", "w">>,
                <<"-", " ", "S", "h", "i", "p">>>>)>>)

PlanSection ==
  Section(<<"P", "l", "a", "n">>, <<>>, TRUE,
          <<<<"#", "#", "#", " ", "N", "o", "w">>, <<>>,
            <<"G", "o", " ", "*", "*", "b", "i", "g", "*", "*">>>>)

NoContentSection == Section(<<"X">>, <<>>, FALSE, <<>>)

OneLineDoc(line) ==
  Document(<<"a">>, <<Section(<<"a">>, <<>>, TRUE, <<line>>)>>)

Documents ==
  { AcmeDoc,
    Document(<<"A", "c", "m", "e">>, <<>>),
    Document(<<"A", "c", "m", "e">>, <<PlanSection, AcmeDoc.sections[1]>>),
    Document(<<"A", "c", "m", "e">>, <<AcmeDoc.sections[1], NoContentSection>>) }
  \cup { OneLineDoc(line) : line \in AllLines }

\* the section being processed
CurSection == doc.sections[secIdx]

\* the numbers of lines pdf.splitTextToSize can return for the brand name,
\* a section title and a section subtitle
BrandLineCounts == IF doc.given THEN {1} ELSE 1..MaxBrandLines
TitleLineCounts == IF doc.given THEN {1} ELSE 1..MaxTitleLines
SubtitleLineCounts == IF doc.given THEN {1} ELSE 1..MaxSubtitleLines

\* is section.content a string
ContentPresent == IF doc.given THEN {CurSection.hasContent} ELSE BOOLEAN

\* the lines the for loop of processSectionContent can hand over next
LinesNow ==
  IF doc.given
  THEN IF lineIdx < Len(CurSection.content)
       THEN {CurSection.content[lineIdx + 1]} ELSE {}
  ELSE IF lineIdx < MaxLines THEN SampleLines ELSE {}

\* the for loop of processSectionContent is over: split always gives a line
LinesDone ==
  IF doc.given THEN lineIdx = Len(CurSection.content) ELSE lineIdx >= 1

\* can the paragraph being drawn have one more wrapped sub-line, and can
\* wrapIdx sub-lines be all of them
MoreSublines == IF doc.given THEN wrapIdx < 1 ELSE wrapIdx < MaxWrap
SublinesDone == IF doc.given THEN wrapIdx = 1 ELSE wrapIdx >= 1

LowerCase ==
  <<"a", "b", "c", "d", "e", "f", "g", "h", "i",
    "j", "k", "l", "m", "n", "o", "p", "q", "r",
    "s", "t", "u", "v", "w", "x", "y", "z">>
UpperCase ==
  <<"A", "B", "C", "D", "E", "F", "G", "H", "I",
    "J", "K", "L", "M", "N", "O", "P", "Q", "R",
    "S", "T", "U", "V", "W", "X", "Y", "Z">>

\* every character is kept as it is
ToUpperCaseKept(text) == text

\* brandName.toUpperCase()
ToUpperCase(text) ==
  [i \in 1..Len(text) |->
     IF \E k \in 1..26 : LowerCase[k] = text[i]
     THEN UpperCase[CHOOSE k \in 1..26 : LowerCase[k] = text[i]]
     ELSE text[i]]

\* the (.*) group of a heading regex whose prefix has n characters
Capture(line, n) == SubSeq(line, n + 1, Len(line))

\* match[1] of bulletRegex: what follows the marker and its whitespace
BulletContent(line) ==
  LET k == Min({ i \in 1..Len(line) : ~IsSpace(line[i]) })
      rest == { i \in (k + 1)..Len(line) : ~IsSpace(line[i]) }
  IN IF rest = {} THEN <<>> ELSE SubSeq(line, Min(rest), Len(line))

\* the x that centres a text: (pageWidth - pdf.getTextWidth(line)) / 2
Centred(text, font) == (PageWidth - TextWidth(text, font)) \div 2

\* one pdf.text call, as the log keeps it; arg is the text the caller handed
\* to addFormattedText when the call came from there
Entry(page, kind, text, arg, font, size, x, yy) ==
  [page |-> page, kind |-> kind, text |-> text, arg |-> arg, font |-> font,
   size |-> size, x |-> x, y |-> yy, sec |-> secIdx,
   line |-> IF kind \in {"h2", "h3", "bullet", "para"} THEN lineIdx + 1 ELSE 0]

\* the draws of addFormattedText(pdf, text, x, y) as log entries
Formatted(page, kind, text, x, yy) ==
  LET draws == AddFormattedText(text, x, yy)
  IN [i \in 1..Len(draws) |->
        Entry(page, kind, draws[i].text, text, draws[i].font, 12, draws[i].x, yy)]

\* the pdf.text calls of the cover, lines 184-211
CoverEntries(page, brandNameY) ==
  LET brand == ToUpperCase(doc.brandName)
  IN <<Entry(page, "cover", brand, brand, "bold", 36, Centred(brand, "bold"),
             brandNameY - 45 * Unit),
       Entry(page, "cover", <<"Brand Strategy Report">>,
             <<"Brand Strategy Report">>, "normal", 20,
             Centred(<<"Brand Strategy Report">>, "normal"), brandNameY + 30 * Unit),
       Entry(page, "cover", <<"date">>, <<"date">>, "normal", 12,
             Centred(<<"date">>, "normal"), brandNameY + 80 * Unit)>>

\* the pdf.text calls of one branch of processContentLine, with x = margin
BlockEntries(kind, line, page, yy) ==
  CASE kind = "h2" ->
         <<Entry(page, kind, StripBold(Capture(line, 3)),
                 StripBold(Capture(line, 3)), "bold", 18, Margin, yy)>>
    [] kind = "h3" ->
         <<Entry(page, kind, StripBold(Capture(line, 4)),
                 StripBold(Capture(line, 4)), "bold", 14, Margin, yy)>>
    [] kind = "bullet" ->
         <<Entry(page, kind, <<"bullet mark">>, <<"bullet mark">>, "normal", 12,
                 Margin + 15 * Unit, yy)>>
         \o Formatted(page, kind, BulletContent(line), Margin + 35 * Unit, yy)
    [] OTHER -> Formatted(page, kind, line, Margin, yy)

\* the log after the pdf.text calls in entries
Logged(entries) == IF doc.given THEN log \o entries ELSE log

FmtIdle ==
  /\ fPc = "idle"
  /\ fText = <<>>
  /\ fX = 0
  /\ fY = 0
  /\ fLastIndex = 0
  /\ fCurrentX = 0
  /\ fDraws = <<>>

\* no paragraph is being wrapped
WrapIdle ==
  /\ wPc = "idle"
  /\ wLine = <<>>
  /\ wrappedLines = <<>>
  /\ wIdx = 0
  /\ wDraws = <<>>

\* no fetch has settled: response.ok is unknown and no body has been read
NoResponse == [ok |-> "none", body |-> "none"]

\* the page after DOMContentLoaded, lines 9-23: nothing shown, no timer
UiIdle ==
  /\ uPc = "idle"
  /\ btnDisabled = FALSE
  /\ btnText = "Convert to PDF"
  /\ barsShown = FALSE
  /\ fill = 0
  /\ intervals = <<>>
  /\ msgShown = FALSE
  /\ msgType = "none"
  /\ obsPending = FALSE
  /\ hideTimers = {}
  /\ msgAge = 0
  /\ events = 0
  /\ callMsgs = 0
  /\ callResets = 0
  /\ respOk = NoResponse

Init ==
  /\ pc = "cover"
  /\ nSections \in 0..MaxSections
  /\ secIdx = 0
  /\ isFirstSection = TRUE
  /\ lineIdx = 0
  /\ wrapIdx = 0
  /\ y = 0
  /\ pages = <<BlankPage>>
  /\ curPage = 1
  /\ pageCount = 0
  /\ footerI = 0
  /\ result = "none"
  /\ errors = 0
  /\ errCause = "none"
  /\ failedChecks = 0
  /\ lastCheck = NoCheck
  /\ lastDraw = NoDraw
  /\ curLine = <<>>
  /\ doc = NoDocument
  /\ log = <<>>
  /\ textColor = Black
  /\ FmtIdle
  /\ UiIdle
  /\ WrapIdle

\* generatePDF, lines 170-211: the cover page
DrawCover ==
  /\ pc = "cover"
  /\ \E brandLines \in BrandLineCounts :
       LET brandNameY == (PageHeight \div 2) - 50 * Unit + brandLines * 45 * Unit
       IN /\ pages' = DrawOn(pages, curPage, "cover", 0)
          /\ log' = Logged(CoverEntries(curPage, brandNameY))
          /\ lastDraw' = [kind |-> "cover", page |-> curPage,
                          y |-> brandNameY + 80 * Unit, sec |-> 0, line |-> 0,
                          src |-> <<>>]
  /\ pc' = "sections"
  /\ UNCHANGED <<nSections, secIdx, isFirstSection, lineIdx, wrapIdx, y, curPage,
                 pageCount, footerI, result, errors, errCause,
                 failedChecks, lastCheck, curLine>>
  /\ UNCHANGED doc
  /\ UNCHANGED textColor
  /\ UNCHANGED fmtVars
  /\ UNCHANGED uiVars
  /\ UNCHANGED wrapVars

\* generatePDF lines 216-221 and processSectionContent lines 125-129
BeginSection ==
  /\ pc = "sections"
  /\ secIdx < nSections
  /\ LET ps1 == IF GenAddsPage(isFirstSection) THEN AddPage(pages) ELSE pages
         ps2 == IF SectionAddsPage(isFirstSection) THEN AddPage(ps1) ELSE ps1
     IN /\ pages' = ps2
        /\ curPage' = IF Len(ps2) > Len(pages) THEN Len(ps2) ELSE curPage
  /\ secIdx' = secIdx + 1
  /\ y' = Margin
  /\ pc' = "title"
  /\ UNCHANGED <<nSections, isFirstSection, lineIdx, wrapIdx, pageCount, footerI,
                 result, errors, errCause, failedChecks, lastCheck,
                 lastDraw, curLine>>
  /\ UNCHANGED <<doc, log>>
  /\ UNCHANGED textColor
  /\ UNCHANGED fmtVars
  /\ UNCHANGED uiVars
  /\ UNCHANGED wrapVars

\* processSectionContent lines 131-142: the wrapped title lines
DrawTitle ==
  /\ pc = "title"
  /\ \E titleLines \in TitleLineCounts :
       /\ lastDraw' = [kind |-> "title", page |-> curPage,
                       y |-> y + 30 * Unit + (titleLines - 1) * 30 * Unit,
                       sec |-> secIdx, line |-> 0, src |-> <<>>]
       /\ y' = y + 30 * Unit + titleLines * 30 * Unit
  /\ log' = Logged(<<Entry(curPage, "title", CurSection.title, CurSection.title,
                           "bold", 24, Centred(CurSection.title, "bold"),
                           y + 30 * Unit)>>)
  /\ pages' = DrawOn(pages, curPage, "title", secIdx)
  /\ pc' = "subtitle"
  /\ UNCHANGED <<nSections, secIdx, isFirstSection, lineIdx, wrapIdx, curPage,
                 pageCount, footerI, result, errors, errCause,
                 failedChecks, lastCheck, curLine>>
  /\ UNCHANGED doc
  /\ UNCHANGED textColor
  /\ UNCHANGED fmtVars
  /\ UNCHANGED uiVars
  /\ UNCHANGED wrapVars

\* processSectionContent lines 144-156: the wrapped subtitle lines
DrawSubtitle ==
  /\ pc = "subtitle"
  /\ \E subtitleLines \in SubtitleLineCounts :
       /\ lastDraw' = [kind |-> "subtitle", page |-> curPage,
                       y |-> y + (subtitleLines - 1) * 20 * Unit,
                       sec |-> secIdx, line |-> 0, src |-> <<>>]
       /\ y' = y + subtitleLines * 20 * Unit + 20 * Unit
  /\ log' = Logged(<<Entry(curPage, "subtitle", CurSection.subtitle,
                           CurSection.subtitle, "normal", 16,
                           Centred(CurSection.subtitle, "normal"), y)>>)
  /\ pages' = DrawOn(pages, curPage, "subtitle", secIdx)
  /\ pc' = "split"
  /\ UNCHANGED <<nSections, secIdx, isFirstSection, lineIdx, wrapIdx, curPage,
                 pageCount, footerI, result, errors, errCause,
                 failedChecks, lastCheck, curLine>>
  /\ UNCHANGED doc
  /\ UNCHANGED textColor
  /\ UNCHANGED fmtVars
  /\ UNCHANGED uiVars
  /\ UNCHANGED wrapVars

\* the catch block of generatePDF, lines 245-248
Throw(cause) ==
  /\ pc' = "error"
  /\ errors' = errors + 1
  /\ errCause' = cause
  /\ result' = ResultOnError

\* processSectionContent line 159 with section.content a string
SplitContent ==
  /\ pc = "split"
  /\ TRUE \in ContentPresent
  /\ pc' = "line"
  /\ lineIdx' = 0
  /\ UNCHANGED <<nSections, secIdx, isFirstSection, wrapIdx, y, pages, curPage,
                 pageCount, footerI, result, errors, errCause,
                 failedChecks, lastCheck, lastDraw, curLine>>
  /\ UNCHANGED <<doc, log>>
  /\ UNCHANGED textColor
  /\ UNCHANGED fmtVars
  /\ UNCHANGED uiVars
  /\ UNCHANGED wrapVars

\* processSectionContent line 159 with section.content absent:
\* undefined.split throws a TypeError, which the catch block wraps
SplitContentAbsent ==
  /\ pc = "split"
  /\ FALSE \in ContentPresent
  /\ Throw("TypeError")
  /\ UNCHANGED <<nSections, secIdx, isFirstSection, lineIdx, wrapIdx, y, pages,
                 curPage, pageCount, footerI, failedChecks, lastCheck,
                 lastDraw, curLine>>
  /\ UNCHANGED <<doc, log>>
  /\ UNCHANGED textColor
  /\ UNCHANGED fmtVars
  /\ UNCHANGED uiVars
  /\ UNCHANGED wrapVars

\* one fit check followed by one draw at offset lead below the cursor it returns
CheckAndDraw(line, kind, required, lead, advance) ==
  LET y1 == CheckForPageBreak(y, required)
      ps1 == CheckPages(pages, y, required)
      p1 == IF Len(ps1) > Len(pages) THEN Len(ps1) ELSE curPage
  IN /\ pages' = DrawOn(ps1, p1, "content", secIdx)
     /\ curPage' = p1
     /\ failedChecks' = failedChecks + (IF CheckFails(y, required) THEN 1 ELSE 0)
     /\ lastCheck' = [y |-> y, h |-> required, added |-> CheckFails(y, required)]
     /\ lastDraw' = [kind |-> kind, page |-> p1, y |-> y1 + lead, sec |-> secIdx,
                     line |-> lineIdx + 1, src |-> line]
     /\ y' = y1 + advance
     /\ log' = Logged(BlockEntries(kind, line, p1, y1 + lead))

\* processContentLine lines 22-31
ProcessHeading2 ==
  /\ pc = "line"
  /\ \E line \in LinesNow :
       /\ Heading2Test(line)
       /\ UNCHANGED curLine
       /\ CheckAndDraw(line, "h2", Heading2Required, 15 * Unit, 15 * Unit + 25 * Unit)
  /\ lineIdx' = lineIdx + 1
  /\ UNCHANGED <<pc, nSections, secIdx, isFirstSection, wrapIdx, pageCount, footerI,
                 result, errors, errCause>>
  /\ UNCHANGED doc
  /\ UNCHANGED textColor
  /\ UNCHANGED fmtVars
  /\ UNCHANGED uiVars
  /\ UNCHANGED wrapVars

\* processContentLine lines 33-42
ProcessHeading3 ==
  /\ pc = "line"
  /\ \E line \in LinesNow :
       /\ ~Heading2Test(line)
       /\ Heading3Test(line)
       /\ UNCHANGED curLine
       /\ CheckAndDraw(line, "h3", Heading3Required, 12 * Unit, 12 * Unit + 22 * Unit)
  /\ lineIdx' = lineIdx + 1
  /\ UNCHANGED <<pc, nSections, secIdx, isFirstSection, wrapIdx, pageCount, footerI,
                 result, errors, errCause>>
  /\ UNCHANGED doc
  /\ UNCHANGED textColor
  /\ UNCHANGED fmtVars
  /\ UNCHANGED uiVars
  /\ UNCHANGED wrapVars

\* processContentLine lines 44-59
ProcessBullet ==
  /\ pc = "line"
  /\ \E line \in LinesNow :
       /\ ~Heading2Test(line)
       /\ ~Heading3Test(line)
       /\ BulletTest(line)
       /\ UNCHANGED curLine
       /\ CheckAndDraw(line, "bullet", BulletRequired, 0, 23 * Unit)
  /\ lineIdx' = lineIdx + 1
  /\ UNCHANGED <<pc, nSections, secIdx, isFirstSection, wrapIdx, pageCount, footerI,
                 result, errors, errCause>>
  /\ UNCHANGED doc
  /\ UNCHANGED textColor
  /\ UNCHANGED fmtVars
  /\ UNCHANGED uiVars
  /\ UNCHANGED wrapVars

\* processContentLine lines 61-63
ProcessBlank ==
  /\ pc = "line"
  /\ \E line \in LinesNow :
       /\ ~Heading2Test(line)
       /\ ~Heading3Test(line)
       /\ ~BulletTest(line)
       /\ TrimIsEmpty(line)
       /\ UNCHANGED curLine
  /\ y' = y + BlankAdvance
  /\ lineIdx' = lineIdx + 1
  /\ UNCHANGED <<pc, nSections, secIdx, isFirstSection, wrapIdx, pages, curPage,
                 pageCount, footerI, result, errors, errCause,
                 failedChecks, lastCheck, lastDraw>>
  /\ UNCHANGED <<doc, log>>
  /\ UNCHANGED textColor
  /\ UNCHANGED fmtVars
  /\ UNCHANGED uiVars
  /\ UNCHANGED wrapVars

\* processContentLine lines 65-70: a paragraph is word-wrapped
ParagraphStart ==
  /\ pc = "line"
  /\ \E line \in LinesNow :
       /\ ~Heading2Test(line)
       /\ ~Heading3Test(line)
       /\ ~BulletTest(line)
       /\ ~TrimIsEmpty(line)
       /\ curLine' = line
  /\ wrapIdx' = 0
  /\ pc' = "para"
  /\ UNCHANGED <<nSections, secIdx, isFirstSection, lineIdx, y, pages, curPage,
                 pageCount, footerI, result, errors, errCause,
                 failedChecks, lastCheck, lastDraw>>
  /\ UNCHANGED <<doc, log>>
  /\ UNCHANGED textColor
  /\ UNCHANGED fmtVars
  /\ UNCHANGED uiVars
  /\ UNCHANGED wrapVars

\* processContentLine lines 72-76: one wrapped sub-line
ParagraphSubline ==
  /\ pc = "para"
  /\ MoreSublines
  /\ CheckAndDraw(curLine, "para", ParagraphLineHeight, 0, ParagraphLineHeight)
  /\ wrapIdx' = wrapIdx + 1
  /\ UNCHANGED <<pc, nSections, secIdx, isFirstSection, lineIdx, pageCount, footerI,
                 result, errors, errCause, curLine>>
  /\ UNCHANGED doc
  /\ UNCHANGED textColor
  /\ UNCHANGED fmtVars
  /\ UNCHANGED uiVars
  /\ UNCHANGED wrapVars

\* processContentLine line 78: the paragraph's trailing gap
ParagraphEnd ==
  /\ pc = "para"
  /\ SublinesDone
  /\ y' = y + 10 * Unit
  /\ lineIdx' = lineIdx + 1
  /\ pc' = "line"
  /\ curLine' = <<>>
  /\ UNCHANGED <<nSections, secIdx, isFirstSection, wrapIdx, pages, curPage,
                 pageCount, footerI, result, errors, errCause,
                 failedChecks, lastCheck, lastDraw>>
  /\ UNCHANGED <<doc, log>>
  /\ UNCHANGED textColor
  /\ UNCHANGED fmtVars
  /\ UNCHANGED uiVars
  /\ UNCHANGED wrapVars

\* processSectionContent line 165 and generatePDF line 222
EndSection ==
  /\ pc = "line"
  /\ LinesDone
  /\ isFirstSection' = FALSE
  /\ pc' = "sections"
  /\ lastCheck' = NoCheck
  /\ UNCHANGED <<nSections, secIdx, lineIdx, wrapIdx, y, pages, curPage, pageCount,
                 footerI, result, errors, errCause, failedChecks,
                 lastDraw, curLine>>
  /\ UNCHANGED <<doc, log>>
  /\ UNCHANGED textColor
  /\ UNCHANGED fmtVars
  /\ UNCHANGED uiVars
  /\ UNCHANGED wrapVars

\* generatePDF lines 226-228: the footer pass starts
BeginFooterPass ==
  /\ pc = "sections"
  /\ secIdx = nSections
  /\ pageCount' = GetNumberOfPages(pages)
  /\ footerI' = FirstFooterPage
  /\ pc' = "footer"
  /\ UNCHANGED <<nSections, secIdx, isFirstSection, lineIdx, wrapIdx, y, pages,
                 curPage, result, errors, errCause, failedChecks,
                 lastCheck, lastDraw, curLine>>
  /\ UNCHANGED <<doc, log>>
  /\ UNCHANGED textColor
  /\ UNCHANGED fmtVars
  /\ UNCHANGED uiVars
  /\ UNCHANGED wrapVars

\* generatePDF lines 228-232: the loop test, setPage and the footer style
SetFooterStyle ==
  /\ pc = "footer"
  /\ footerI <= pageCount
  /\ curPage' = footerI
  /\ textColor' = Gray
  /\ pc' = "stamp"
  /\ UNCHANGED <<nSections, secIdx, isFirstSection, lineIdx, wrapIdx, y, pages,
                 pageCount, footerI, result, errors, errCause, failedChecks,
                 lastCheck, lastDraw, curLine>>
  /\ UNCHANGED <<doc, log>>
  /\ UNCHANGED fmtVars
  /\ UNCHANGED uiVars
  /\ UNCHANGED wrapVars

\* generatePDF lines 234-240: the footer text, the colour reset and i++
StampFooter ==
  /\ pc = "stamp"
  /\ pages' = [pages EXCEPT ![footerI].footers =
                 Append(@, PageText(footerI, pageCount))]
  /\ lastDraw' = [kind |-> "footer", page |-> footerI,
                  y |-> FooterY, sec |-> 0, line |-> 0,
                  src |-> <<>>]
  /\ footerI' = footerI + 1
  /\ textColor' = ColorAfterFooter
  /\ pc' = "footer"
  /\ UNCHANGED <<nSections, secIdx, isFirstSection, lineIdx, wrapIdx, y, curPage,
                 pageCount, result, errors, errCause, failedChecks,
                 lastCheck, curLine>>
  /\ UNCHANGED <<doc, log>>
  /\ UNCHANGED fmtVars
  /\ UNCHANGED uiVars
  /\ UNCHANGED wrapVars

\* generatePDF line 243
Output ==
  /\ pc = "footer"
  /\ footerI > pageCount
  /\ result' = "arraybuffer"
  /\ pc' = "done"
  /\ UNCHANGED <<nSections, secIdx, isFirstSection, lineIdx, wrapIdx, y, pages,
                 curPage, pageCount, footerI, errors, errCause,
                 failedChecks, lastCheck, lastDraw, curLine>>
  /\ UNCHANGED <<doc, log>>
  /\ UNCHANGED textColor
  /\ UNCHANGED fmtVars
  /\ UNCHANGED uiVars
  /\ UNCHANGED wrapVars

\* a drawing or text-measurement call of the current step throws
RenderFailure ==
  /\ pc \notin {"done", "error"}
  /\ Throw("render")
  /\ UNCHANGED <<nSections, secIdx, isFirstSection, lineIdx, wrapIdx, y, pages,
                 curPage, pageCount, footerI, failedChecks, lastCheck,
                 lastDraw, curLine>>
  /\ UNCHANGED <<doc, log>>
  /\ UNCHANGED textColor
  /\ UNCHANGED fmtVars
  /\ UNCHANGED uiVars
  /\ UNCHANGED wrapVars

Next ==
  \/ DrawCover
  \/ BeginSection
  \/ DrawTitle
  \/ DrawSubtitle
  \/ SplitContent
  \/ SplitContentAbsent
  \/ ProcessHeading2
  \/ ProcessHeading3
  \/ ProcessBullet
  \/ ProcessBlank
  \/ ParagraphStart
  \/ ParagraphSubline
  \/ ParagraphEnd
  \/ EndSection
  \/ BeginFooterPass
  \/ SetFooterStyle
  \/ StampFooter
  \/ Output
  \/ RenderFailure

Spec == Init /\ [][Next]_vars

\* --------------------------------- generatePDF on a document given in full
DocInit ==
  /\ pc = "cover"
  /\ doc \in Documents
  /\ nSections = Len(doc.sections)
  /\ secIdx = 0
  /\ isFirstSection = TRUE
  /\ lineIdx = 0
  /\ wrapIdx = 0
  /\ y = 0
  /\ pages = <<BlankPage>>
  /\ curPage = 1
  /\ pageCount = 0
  /\ footerI = 0
  /\ result = "none"
  /\ errors = 0
  /\ errCause = "none"
  /\ failedChecks = 0
  /\ lastCheck = NoCheck
  /\ lastDraw = NoDraw
  /\ curLine = <<>>
  /\ log = <<>>
  /\ textColor = Black
  /\ FmtIdle
  /\ UiIdle
  /\ WrapIdle

SpecDoc == DocInit /\ [][Next]_vars

\* ------------------------------------------- addFormattedText, on its own
\* a call of addFormattedText(pdf, text, x, y), lines 82-88
FmtInit ==
  /\ pc = "idle"
  /\ nSections = 0
  /\ secIdx = 0
  /\ isFirstSection = TRUE
  /\ lineIdx = 0
  /\ wrapIdx = 0
  /\ y = 0
  /\ pages = <<BlankPage>>
  /\ curPage = 1
  /\ pageCount = 0
  /\ footerI = 0
  /\ result = "none"
  /\ errors = 0
  /\ errCause = "none"
  /\ failedChecks = 0
  /\ lastCheck = NoCheck
  /\ lastDraw = NoDraw
  /\ curLine = <<>>
  /\ doc = NoDocument
  /\ log = <<>>
  /\ textColor = Black
  /\ fPc = "loop"
  /\ fText \in Texts
  /\ fX \in {Margin, Margin + 35 * Unit}
  /\ fY \in {Margin, Margin + ParagraphLineHeight}
  /\ fLastIndex = 0
  /\ fCurrentX = fX
  /\ fDraws = <<>>
  /\ UiIdle
  /\ WrapIdle

\* lines 90-106: one iteration of the while loop
FmtMatch ==
  /\ fPc = "loop"
  /\ BoldExec(fText, fLastIndex).found
  /\ LET st == WhileStep(fText, [lastIndex |-> fLastIndex, currentX |-> fCurrentX,
                                  draws |-> fDraws], fY)
     IN /\ fDraws' = st.draws
        /\ fCurrentX' = st.currentX
        /\ fLastIndex' = st.lastIndex
  /\ UNCHANGED <<fPc, fText, fX, fY>>
  /\ UNCHANGED genVars
  /\ UNCHANGED uiVars
  /\ UNCHANGED wrapVars

\* lines 108-119: the loop ends, then the remaining text and the no-bold case
FmtFinish ==
  /\ fPc = "loop"
  /\ ~BoldExec(fText, fLastIndex).found
  /\ fDraws' = AfterLoop(fText, [lastIndex |-> fLastIndex, currentX |-> fCurrentX,
                                  draws |-> fDraws], fY)
  /\ fPc' = "done"
  /\ UNCHANGED <<fText, fX, fY, fLastIndex, fCurrentX>>
  /\ UNCHANGED genVars
  /\ UNCHANGED uiVars
  /\ UNCHANGED wrapVars

FmtNext == FmtMatch \/ FmtFinish

SpecFmt == FmtInit /\ [][FmtNext]_vars

\* ------------------------------------------------ the page, script.js
\* seconds of setTimeout(() => hideMessage(), 5000)
HideDelay == 5

\* the width at which a progress interval stops itself
ProgressStop == 95

\* values of 5 + Math.random() * 10, which lies in [5, 15)
ProgressSteps == {7, 14}

\* the button is disabled while a conversion runs, so no second submit
CanSubmit == ~btnDisabled /\ uPc = "idle" /\ ~obsPending /\ events < MaxEvents

\* the old timeout is left pending
TimersAfterShowKept(timers) == timers \cup {HideDelay}

\* lines 182-183: clearTimeout(timeout), then a new timeout of 5 seconds;
\* timeout always names the one timeout that can still be pending
TimersAfterShow(timers) == {HideDelay}

\* showMessage(text, type), lines 167-170
ShowMessage(type) ==
  /\ msgShown' = TRUE
  /\ msgType' = type
  /\ msgAge' = 0
  /\ obsPending' = TRUE

\* hideMessage(), lines 173-175
HideMessage ==
  /\ msgShown' = FALSE
  /\ msgAge' = 0
  /\ obsPending' = TRUE
  /\ UNCHANGED msgType

\* the button stays disabled
DisabledAfterStuck(isLoading) == TRUE

\* convertBtn.disabled as setLoadingState(isLoading) sets it, lines 84, 91
DisabledAfter(isLoading) == isLoading

\* the fill is left where the interval put it
FillAfterLoadingKept(width) == width

\* line 95: progressFill.style.width = '0%'
FillAfterLoading(width) == 0 * width

\* setLoadingState(false), lines 91-95
LeaveLoading ==
  /\ btnDisabled' = DisabledAfter(FALSE)
  /\ btnText' = "Convert to PDF"
  /\ barsShown' = FALSE
  /\ fill' = FillAfterLoading(fill)

\* handleFormSubmit with an empty or invalid URL, lines 29-38
SubmitInvalid ==
  /\ CanSubmit
  /\ ShowMessage("error")
  /\ events' = events + 1
  /\ UNCHANGED <<uPc, btnDisabled, btnText, barsShown, fill, intervals,
                 hideTimers, callMsgs, callResets, respOk>>
  /\ UNCHANGED <<genVars, fmtVars, wrapVars>>

\* handleUrlValidation with a valid URL, lines 138-140
UrlInputValid ==
  /\ uPc \in {"idle", "fetch", "text", "blob"}
  /\ ~obsPending
  /\ events < MaxEvents
  /\ HideMessage
  /\ events' = events + 1
  /\ UNCHANGED <<uPc, btnDisabled, btnText, barsShown, fill, intervals,
                 hideTimers, callMsgs, callResets, respOk>>
  /\ UNCHANGED <<genVars, fmtVars, wrapVars>>

\* handleFormSubmit line 39 and convertDocument line 48: setLoadingState(true)
\* with simulateProgress() starting an interval at width 0
ConvertStart ==
  /\ CanSubmit
  /\ btnDisabled' = DisabledAfter(TRUE)
  /\ btnText' = "Converting..."
  /\ barsShown' = TRUE
  /\ intervals' = Append(intervals, 0)
  /\ HideMessage
  /\ events' = events + 1
  /\ callMsgs' = 0
  /\ callResets' = 0
  /\ respOk' = NoResponse
  /\ uPc' = "entered"
  /\ UNCHANGED <<fill, hideTimers>>
  /\ UNCHANGED <<genVars, fmtVars, wrapVars>>

\* convertDocument lines 50-54: fetch is called and awaited
SendRequest ==
  /\ uPc = "entered"
  /\ uPc' = "fetch"
  /\ UNCHANGED <<btnDisabled, btnText, barsShown, fill, intervals, msgShown,
                 msgType, obsPending, hideTimers, msgAge, events, callMsgs,
                 callResets, respOk>>
  /\ UNCHANGED <<genVars, fmtVars, wrapVars>>

\* the catch block and the finally block, lines 68-73
CatchAndFinally ==
  /\ ShowMessage("error")
  /\ callMsgs' = callMsgs + 1
  /\ LeaveLoading
  /\ uPc' = "idle"
  /\ UNCHANGED <<intervals, hideTimers, events, callResets>>

\* the fetch promise rejects
FetchRejects ==
  /\ uPc = "fetch"
  /\ ~obsPending
  /\ respOk' = [ok |-> "rejected", body |-> "none"]
  /\ CatchAndFinally
  /\ UNCHANGED <<genVars, fmtVars, wrapVars>>

\* the response arrives with ok false, lines 56-57
FetchNotOk ==
  /\ uPc = "fetch"
  /\ ~obsPending
  /\ respOk' = [ok |-> "no", body |-> "none"]
  /\ uPc' = "text"
  /\ UNCHANGED <<btnDisabled, btnText, barsShown, fill, intervals, msgShown,
                 msgType, obsPending, hideTimers, msgAge, events, callMsgs,
                 callResets>>
  /\ UNCHANGED <<genVars, fmtVars, wrapVars>>

\* response.text() settles either way and line 58 throws
TextSettles ==
  /\ uPc = "text"
  /\ ~obsPending
  /\ CatchAndFinally
  /\ UNCHANGED respOk
  /\ UNCHANGED <<genVars, fmtVars, wrapVars>>

\* the response arrives with ok true, line 61
FetchOk ==
  /\ uPc = "fetch"
  /\ ~obsPending
  /\ respOk' = [ok |-> "yes", body |-> "none"]
  /\ uPc' = "blob"
  /\ UNCHANGED <<btnDisabled, btnText, barsShown, fill, intervals, msgShown,
                 msgType, obsPending, hideTimers, msgAge, events, callMsgs,
                 callResets>>
  /\ UNCHANGED <<genVars, fmtVars, wrapVars>>

\* response.blob() resolves: lines 62-66 and the finally block
BlobResolves ==
  /\ uPc = "blob"
  /\ ~obsPending
  /\ ShowMessage("success")
  /\ callMsgs' = callMsgs + 1
  /\ callResets' = callResets + 1
  /\ LeaveLoading
  /\ uPc' = "idle"
  /\ respOk' = [respOk EXCEPT !.body = "read"]
  /\ UNCHANGED <<intervals, hideTimers, events>>
  /\ UNCHANGED <<genVars, fmtVars, wrapVars>>

\* response.blob() rejects: the body of the response could not be read
BlobRejects ==
  /\ uPc = "blob"
  /\ ~obsPending
  /\ CatchAndFinally
  /\ respOk' = [respOk EXCEPT !.body = "failed"]
  /\ UNCHANGED <<genVars, fmtVars, wrapVars>>

\* a sequence without its element i
Without(seq, i) == SubSeq(seq, 1, i - 1) \o SubSeq(seq, i + 1, Len(seq))

\* the callback of one simulateProgress interval, lines 102-108
ProgressTick ==
  /\ uPc # "entered"
  /\ ~obsPending
  /\ \E i \in 1..Len(intervals) :
       IF intervals[i] >= ProgressStop
       THEN /\ intervals' = Without(intervals, i)
            /\ UNCHANGED fill
       ELSE \E step \in ProgressSteps :
              /\ intervals' = [intervals EXCEPT ![i] = @ + step]
              /\ fill' = IF intervals[i] + step < ProgressStop
                         THEN intervals[i] + step ELSE ProgressStop
  /\ UNCHANGED <<uPc, btnDisabled, btnText, barsShown, msgShown, msgType,
                 obsPending, hideTimers, msgAge, events, callMsgs, callResets,
                 respOk>>
  /\ UNCHANGED <<genVars, fmtVars, wrapVars>>

\* the MutationObserver callback, lines 180-185: a microtask that runs as
\* soon as the script that changed the class attribute has returned
ObserverRun ==
  /\ obsPending
  /\ uPc # "entered"
  /\ obsPending' = FALSE
  /\ hideTimers' = IF msgShown THEN TimersAfterShow(hideTimers) ELSE hideTimers
  /\ UNCHANGED <<uPc, btnDisabled, btnText, barsShown, fill, intervals, msgShown,
                 msgType, msgAge, events, callMsgs, callResets, respOk>>
  /\ UNCHANGED <<genVars, fmtVars, wrapVars>>

\* one second passes with no timeout due
Tick ==
  /\ uPc # "entered"
  /\ ~obsPending
  /\ hideTimers # {}
  /\ 0 \notin hideTimers
  /\ hideTimers' = { t - 1 : t \in hideTimers }
  /\ msgAge' = IF msgShown /\ msgAge < HideDelay THEN msgAge + 1 ELSE msgAge
  /\ UNCHANGED <<uPc, btnDisabled, btnText, barsShown, fill, intervals, msgShown,
                 msgType, obsPending, events, callMsgs, callResets, respOk>>
  /\ UNCHANGED <<genVars, fmtVars, wrapVars>>

\* a hide timeout is due: () => hideMessage(), line 183
HideTimerFire ==
  /\ uPc # "entered"
  /\ ~obsPending
  /\ 0 \in hideTimers
  /\ hideTimers' = hideTimers \ {0}
  /\ HideMessage
  /\ UNCHANGED <<uPc, btnDisabled, btnText, barsShown, fill, intervals, events,
                 callMsgs, callResets, respOk>>
  /\ UNCHANGED <<genVars, fmtVars, wrapVars>>

UiInit ==
  /\ pc = "idle"
  /\ nSections = 0
  /\ secIdx = 0
  /\ isFirstSection = TRUE
  /\ lineIdx = 0
  /\ wrapIdx = 0
  /\ y = 0
  /\ pages = <<BlankPage>>
  /\ curPage = 1
  /\ pageCount = 0
  /\ footerI = 0
  /\ result = "none"
  /\ errors = 0
  /\ errCause = "none"
  /\ failedChecks = 0
  /\ lastCheck = NoCheck
  /\ lastDraw = NoDraw
  /\ curLine = <<>>
  /\ doc = NoDocument
  /\ log = <<>>
  /\ textColor = Black
  /\ FmtIdle
  /\ UiIdle
  /\ WrapIdle

UiNext ==
  \/ SubmitInvalid
  \/ UrlInputValid
  \/ ConvertStart
  \/ SendRequest
  \/ FetchRejects
  \/ FetchNotOk
  \/ TextSettles
  \/ FetchOk
  \/ BlobResolves
  \/ BlobRejects
  \/ ProgressTick
  \/ ObserverRun
  \/ Tick
  \/ HideTimerFire

SpecUI == UiInit /\ [][UiNext]_vars

\* the script runs to completion, microtasks run, timers fire, time passes
SpecUILive ==
  /\ SpecUI
  /\ WF_vars(SendRequest)
  /\ WF_vars(ObserverRun)
  /\ WF_vars(Tick)
  /\ WF_vars(HideTimerFire)

\* ------------------------------- a paragraph line, wrapped and formatted
\* the 1-based positions of the spaces of a line
SpacesOf(line) == { i \in 1..Len(line) : line[i] = " " }

\* the line cut at the spaces in cuts, each of which is dropped
RECURSIVE CutAt(_, _, _)
CutAt(line, cuts, from) ==
  IF { c \in cuts : c >= from } = {}
  THEN <<SubSeq(line, from, Len(line))>>
  ELSE LET c == Min({ c \in cuts : c >= from })
       IN <<SubSeq(line, from, c - 1)>> \o CutAt(line, cuts, c + 1)

\* what pdf.splitTextToSize(line, usableWidth) can return for some width
\* and font: the line broken at some of its spaces
SplitTextToSize(line) ==
  { CutAt(line, cuts, 1) :
      cuts \in { c \in SUBSET SpacesOf(line) : Cardinality(c) < MaxWrap } }

\* processContentLine lines 65-70 for a paragraph line
WrapInit ==
  /\ pc = "idle"
  /\ nSections = 0
  /\ secIdx = 0
  /\ isFirstSection = TRUE
  /\ lineIdx = 0
  /\ wrapIdx = 0
  /\ y = 0
  /\ pages = <<BlankPage>>
  /\ curPage = 1
  /\ pageCount = 0
  /\ footerI = 0
  /\ result = "none"
  /\ errors = 0
  /\ errCause = "none"
  /\ failedChecks = 0
  /\ lastCheck = NoCheck
  /\ lastDraw = NoDraw
  /\ curLine = <<>>
  /\ doc = NoDocument
  /\ log = <<>>
  /\ textColor = Black
  /\ FmtIdle
  /\ UiIdle
  /\ wPc = "split"
  /\ wLine \in { t \in Texts : ~Heading2Test(t) /\ ~Heading3Test(t)
                               /\ ~BulletTest(t) /\ ~TrimIsEmpty(t) }
  /\ wrappedLines = <<>>
  /\ wIdx = 0
  /\ wDraws = <<>>

\* line 70: the line is word-wrapped, markers and all
WrapSplit ==
  /\ wPc = "split"
  /\ wrappedLines' \in SplitTextToSize(wLine)
  /\ wPc' = "loop"
  /\ UNCHANGED <<wLine, wIdx, wDraws>>
  /\ UNCHANGED <<genVars, fmtVars, uiVars>>

\* lines 72-76: one sub-line is formatted and drawn, one line height lower
WrapDrawSubline ==
  /\ wPc = "loop"
  /\ wIdx < Len(wrappedLines)
  /\ wDraws' = wDraws \o AddFormattedText(wrappedLines[wIdx + 1], Margin,
                                          Margin + wIdx * ParagraphLineHeight)
  /\ wIdx' = wIdx + 1
  /\ UNCHANGED <<wPc, wLine, wrappedLines>>
  /\ UNCHANGED <<genVars, fmtVars, uiVars>>

\* line 78: the loop is over
WrapReturn ==
  /\ wPc = "loop"
  /\ wIdx = Len(wrappedLines)
  /\ wPc' = "done"
  /\ UNCHANGED <<wLine, wrappedLines, wIdx, wDraws>>
  /\ UNCHANGED <<genVars, fmtVars, uiVars>>

WrapNext == WrapSplit \/ WrapDrawSubline \/ WrapReturn

SpecWrap == WrapInit /\ [][WrapNext]_vars

\* ------------------------------------------------------------ properties
ContentKinds == {"h2", "h3", "bullet", "para"}

\* the height the claims give for a drawn block, and the offset of its
\* baseline below the cursor the fit check returns
BlockHeight(kind) ==
  CASE kind = "h2" -> 40 * Unit
    [] kind = "h3" -> 35 * Unit
    [] OTHER -> 18 * Unit

BlockLead(kind) ==
  CASE kind = "h2" -> 15 * Unit
    [] kind = "h3" -> 12 * Unit
    [] OTHER -> 0

\* a step of processContentLine that draws a block
DrawsBlock == pc \in {"line", "para"} /\ lastDraw' # lastDraw

\* C1: whenever processContentLine draws a block of height h with the cursor
\* at y, a page is added before the draw if and only if
\* (pageHeight - 80) - y < h; if one is added the block is drawn on it from
\* the margin, and otherwise (equality included) it is drawn at y on the
\* current page and the page count does not change.
C1_PageBreakIffInsufficient ==
  [][DrawsBlock =>
       LET h == BlockHeight(lastDraw'.kind)
           short == (PageHeight - 80 * Unit) - y < h
       IN /\ lastDraw'.kind \in ContentKinds
          /\ lastCheck' = [y |-> y, h |-> h, added |-> short]
          /\ short => /\ Len(pages') = Len(pages) + 1
                      /\ lastDraw'.page = Len(pages')
                      /\ lastDraw'.y = Margin + BlockLead(lastDraw'.kind)
          /\ ~short => /\ Len(pages') = Len(pages)
                       /\ lastDraw'.page = curPage
                       /\ lastDraw'.y = y + BlockLead(lastDraw'.kind)]_vars

\* a heading-2 met less than 40pt above the footer zone was moved to a new
\* page and drawn 15pt below its margin
C1_Witness ==
  /\ lastCheck.added
  /\ lastCheck.h = 40 * Unit
  /\ lastCheck.y > (PageHeight - 80 * Unit) - 40 * Unit
  /\ lastDraw.kind = "h2"
  /\ lastDraw.y = Margin + 15 * Unit
  /\ failedChecks = 1

StartsWithHeading2(line) ==
  Len(line) >= 3 /\ SubSeq(line, 1, 3) = <<"#", "#", " ">>

\* C2: no heading-2, heading-3, bullet or paragraph sub-line is drawn at a y
\* greater than pageHeight - 80, and a line that starts with "## " is drawn
\* as a heading-2.
C2_ContentAboveFooterZone ==
  lastDraw.kind \in ContentKinds =>
    /\ lastDraw.y <= PageHeight - 80 * Unit
    /\ StartsWithHeading2(lastDraw.src) => lastDraw.kind = "h2"

\* a heading-2 drawn in place within 30pt of the footer zone
C2_Witness ==
  /\ lastDraw.kind = "h2"
  /\ StartsWithHeading2(lastDraw.src)
  /\ ~lastCheck.added
  /\ lastDraw.y > (PageHeight - 80 * Unit) - 30 * Unit

\* C3: when generatePDF has completed with T pages, page 1 has no footer
\* and every page i in 2..T has exactly one footer, "Page i-1 of T-1".
C3_FooterNumbering ==
  pc = "done" =>
    /\ pages[1].footers = <<>>
    /\ \A i \in 2..Len(pages) :
         pages[i].footers = <<[page |-> i - 1, of |-> Len(pages) - 1]>>

C3_Witness == pc = "done" /\ Len(pages) >= 4 /\ result = "arraybuffer"

\* C4: the start of every section, the first included, adds exactly one
\* page, blank and current; the section title is the first thing drawn on
\* it, and no page ever holds draws of the cover and a section or of two
\* sections.
C4_SectionStartsFreshPage ==
  [][/\ secIdx' # secIdx =>
          /\ secIdx' = secIdx + 1
          /\ Len(pages') = Len(pages) + 1
          /\ curPage' = Len(pages')
          /\ pages'[curPage'] = BlankPage
          /\ SubSeq(pages', 1, Len(pages)) = pages
     /\ lastDraw'.kind = "title" /\ lastDraw' # lastDraw =>
          /\ pages[curPage].first = "none"
          /\ pages'[curPage'].first = "title"
          /\ lastDraw'.page = Len(pages')
     /\ \A p \in 1..Len(pages') : Cardinality(pages'[p].owners) <= 1]_vars

\* the second section starts page 3 although the first left room on page 2
C4_Witness ==
  /\ secIdx = 2
  /\ pc = "subtitle"
  /\ Len(pages) = 3
  /\ failedChecks = 0
  /\ pages[2].owners = {1}
  /\ pages[3].owners = {2}
  /\ pages[3].first = "title"

\* C5: the page count is 1 + the sections started + the fit checks that
\* failed, at every point; after the sections loop all sections are started.
C5_PagesOnlyFromSectionsAndChecks ==
  /\ Len(pages) = 1 + secIdx + failedChecks
  /\ pc \in {"footer", "stamp", "done"} =>
       Len(pages) = 1 + nSections + failedChecks

C5_Witness == pc = "done" /\ nSections = 2 /\ failedChecks >= 1

Phase(p) ==
  CASE p = "cover" -> 0
    [] p \in {"sections", "title", "subtitle", "split", "line", "para"} -> 1
    [] p \in {"footer", "stamp"} -> 2
    [] p = "done" -> 3
    [] OTHER -> 4

\* C6: the phases cover, sections, footer pass, output follow each other in
\* this order; the cover is drawn on page 1; section draws come in section
\* order and, within a section, in line order on a non-decreasing page; the
\* footer pass draws footers only, adds no page and uses the final page
\* count; the buffer is produced after the last footer.
C6_PhaseOrder ==
  [][/\ Phase(pc') >= Phase(pc)
     /\ Phase(pc) = 0 /\ lastDraw' # lastDraw =>
          lastDraw'.kind = "cover" /\ lastDraw'.page = 1
     /\ Phase(pc) = 1 /\ lastDraw' # lastDraw =>
          /\ lastDraw'.kind \in ContentKinds \cup {"title", "subtitle"}
          /\ lastDraw'.sec = secIdx'
          /\ lastDraw'.sec >= lastDraw.sec
          /\ lastDraw'.sec >= 1
          /\ lastDraw'.sec = lastDraw.sec =>
               /\ lastDraw'.line >= lastDraw.line
               /\ lastDraw'.page >= lastDraw.page
     /\ Phase(pc) = 1 /\ Phase(pc') = 2 => secIdx = nSections
     /\ Phase(pc) >= 2 =>
          /\ Len(pages') = Len(pages)
          /\ pageCount = Len(pages)
          /\ lastDraw' # lastDraw => lastDraw'.kind = "footer"
     /\ result' # result /\ pc' = "done" =>
          /\ Phase(pc) = 2
          /\ \A i \in 2..Len(pages) : pages[i].footers # <<>>]_vars

C6_Witness ==
  /\ pc = "done"
  /\ nSections = 2
  /\ Len(pages) >= 4
  /\ lastDraw.kind = "footer"

\* C7: generatePDF ends in at most one error and then has returned nothing;
\* a buffer has been returned only after every section was processed and
\* every footer stamped, with no error.
C7_AtomicFailure ==
  /\ errors <= 1
  /\ (pc = "error") = (errors = 1)
  /\ pc = "error" => result = "none"
  /\ result # "none" =>
       /\ pc = "done"
       /\ errors = 0
       /\ secIdx = nSections
       /\ footerI = Len(pages) + 1
       /\ \A i \in 2..Len(pages) : Len(pages[i].footers) = 1

\* a drawing failure in the footer pass of a three-page document
C7_Witness ==
  /\ pc = "error"
  /\ errCause = "render"
  /\ Len(pages) >= 3
  /\ footerI = 3
  /\ result = "none"

\* C8: with zero sections nothing but a failing drawing call stops
\* generatePDF, and the document it returns has one page, the cover, with
\* no footer.
C8_ZeroSections ==
  nSections = 0 =>
    /\ Len(pages) = 1
    /\ pages[1].footers = <<>>
    /\ pages[1].owners \subseteq {0}
    /\ errCause \in {"none", "render"}
    /\ pc = "done" => result = "arraybuffer" /\ pages[1].first = "cover"

C8_Witness == nSections = 0 /\ pc = "done" /\ result = "arraybuffer"

\* C9: a section whose content field is absent does not make generatePDF
\* fail.
C9_AbsentContentTolerated == ~(pc = "error" /\ errCause = "TypeError")

NoMatchedPair(text) == MatchStarts(text, 0) = {}

\* C10: for a text with no matched ** pair, addFormattedText issues exactly
\* one draw: the whole text, normal weight, at (x, y).
C10_PlainTextDrawnOnce ==
  (fPc = "done" /\ NoMatchedPair(fText)) =>
    fDraws = <<[text |-> fText, font |-> "normal", x |-> fX, y |-> fY]>>

RECURSIVE ConcatTexts(_)
ConcatTexts(draws) ==
  IF draws = <<>> THEN <<>> ELSE Head(draws).text \o ConcatTexts(Tail(draws))

RECURSIVE SumWidths(_)
SumWidths(draws) ==
  IF draws = <<>> THEN 0
  ELSE TextWidth(Head(draws).text, Head(draws).font) + SumWidths(Tail(draws))

\* C11: the texts of the runs addFormattedText has drawn, concatenated in
\* drawing order, are the input text with the matched markers removed.
C11_RunsPartitionLine ==
  fPc = "done" => ConcatTexts(fDraws) = StripBold(fText)

\* C12: every run is drawn at the starting x plus the widths of the runs
\* drawn before it in the same call, each taken under the run's own weight.
C12_CumulativeAdvance ==
  \A i \in 1..Len(fDraws) :
    fDraws[i].x = fX + SumWidths(SubSeq(fDraws, 1, i - 1))

\* C19: no wrapped title or subtitle line is drawn at a y greater than
\* pageHeight - 80.
C19_TitlesAboveFooterZone ==
  lastDraw.kind \in {"title", "subtitle"} => lastDraw.y <= PageHeight - 80 * Unit

\* C20: while the content lines of a section are processed, a step that adds
\* no page never lowers the cursor and raises it whenever it completes a
\* line or draws a sub-line; the cursor gets smaller only when a fit check
\* adds a page, which restarts it at the margin, or when the next section
\* starts; every section starts with the cursor at the margin.
C20_CursorGrowsUntilPageBreak ==
  [][/\ pc \in {"line", "para"} /\ Len(pages') = Len(pages) =>
          /\ y' >= y
          /\ (lineIdx' # lineIdx \/ wrapIdx' > wrapIdx) => y' > y
     /\ pc \in {"line", "para"} /\ y' < y =>
          /\ Len(pages') = Len(pages) + 1
          /\ lastCheck'.added
          /\ lastCheck'.y = y
          /\ lastDraw'.y = Margin + BlockLead(lastDraw'.kind)
          /\ y' >= Margin
     /\ pc \notin {"line", "para"} /\ y' < y => secIdx' = secIdx + 1
     /\ secIdx' # secIdx => y' = Margin]_vars

\* the second line of a section met a full page: the cursor went back to the
\* margin and was advanced from there
C20_Witness ==
  /\ pc = "line"
  /\ lineIdx = 2
  /\ lastCheck.added
  /\ y < lastCheck.y
  /\ lastDraw.line = 2

\* ------------------------------------------------ the rules, as specified
StartsWith(line, prefix) ==
  Len(line) >= Len(prefix) /\ SubSeq(line, 1, Len(prefix)) = prefix

RECURSIVE TrimStart(_)
TrimStart(line) ==
  IF line # <<>> /\ Head(line) = " " THEN TrimStart(Tail(line)) ELSE line

Rules == {"h2", "h3", "bullet", "blank", "para"}

\* the rule the specification gives a line: the first that matches
RuleOf(line) ==
  IF StartsWith(line, <<"#", "#", " ">>) THEN "h2"
  ELSE IF StartsWith(line, <<"#", "#", "#", " ">>) THEN "h3"
  ELSE IF /\ Len(TrimStart(line)) >= 2
          /\ TrimStart(line)[1] \in {"-", "*"}
          /\ TrimStart(line)[2] = " " THEN "bullet"
  ELSE IF TrimStart(line) = <<>> THEN "blank"
  ELSE "para"

\* a bullet line without its indentation, its marker and the space after it
WithoutMarker(line) == TrimStart(Tail(TrimStart(line)))

\* the draws of line k of section s, in drawing order
LineEntries(lg, s, k) == SelectSeq(lg, LAMBDA e : e.sec = s /\ e.line = k)

\* what each rule draws for a line
HandledAs(rule, entries, line) ==
  CASE rule = "h2" ->
         /\ Len(entries) = 1
         /\ entries[1].font = "bold" /\ entries[1].size = 18
    [] rule = "h3" ->
         /\ Len(entries) = 1
         /\ entries[1].font = "bold" /\ entries[1].size = 14
    [] rule = "bullet" ->
         /\ Len(entries) >= 1
         /\ entries[1].text = <<"bullet mark">>
         /\ \A i \in 2..Len(entries) :
              entries[i].size = 12 /\ entries[i].arg = WithoutMarker(line)
    [] rule = "blank" -> entries = <<>>
    [] OTHER ->
         /\ Len(entries) >= 1
         /\ \A i \in 1..Len(entries) :
              entries[i].size = 12 /\ entries[i].arg = line

\* C13: every content line is handled by exactly one of the five rules, the
\* first of heading-2, heading-3, bullet, blank, paragraph that matches it: a
\* line starting with '### ' is not drawn as a heading-2, a bullet is drawn
\* without its marker, a blank line draws nothing, anything else is drawn as
\* a paragraph.
C13_FirstMatchingRule ==
  [][doc.given /\ pc \in {"line", "para"} /\ lineIdx' = lineIdx + 1 =>
       LET line == CurSection.content[lineIdx']
           entries == LineEntries(log', secIdx, lineIdx')
       IN \A rule \in Rules :
            HandledAs(rule, entries, line) <=> rule = RuleOf(line)]_vars

\* every rule has handled a line: a first section of a heading-3, a blank
\* line and a paragraph, then a second one of a heading-2 and two bullets
C13_Witness ==
  /\ doc.given
  /\ Len(doc.sections) = 2
  /\ secIdx = 2
  /\ pc = "line"
  /\ lineIdx = 3
  /\ { RuleOf(doc.sections[s].content[k]) : s \in 1..2, k \in 1..3 } = Rules
  /\ HandledAs("h3", LineEntries(log, 1, 1), doc.sections[1].content[1])
  /\ HandledAs("para", LineEntries(log, 1, 3), doc.sections[1].content[3])

\* C14: a line with whitespace before '## ' is drawn as a heading-2, and a
\* line with whitespace before '### ' as a heading-3.
C14_IndentedHeadingIsHeading ==
  [][doc.given /\ pc \in {"line", "para"} /\ lineIdx' = lineIdx + 1 =>
       LET line == CurSection.content[lineIdx']
           entries == LineEntries(log', secIdx, lineIdx')
       IN /\ StartsWith(TrimStart(line), <<"#", "#", " ">>) =>
               HandledAs("h2", entries, line)
          /\ StartsWith(TrimStart(line), <<"#", "#", "#", " ">>) =>
               HandledAs("h3", entries, line)]_vars

\* a draw that repeats the one before it puts the same text at the same place
RECURSIVE Collapse(_)
Collapse(entries) ==
  IF Len(entries) <= 1 THEN entries
  ELSE IF entries[1] = entries[2] THEN Collapse(Tail(entries))
  ELSE <<entries[1]>> \o Collapse(Tail(entries))

\* what the draws on a page show, in drawing order
Shown(lg, page) ==
  LET entries == Collapse(SelectSeq(lg, LAMBDA e : e.page = page))
  IN [i \in 1..Len(entries) |->
        [kind |-> entries[i].kind, text |-> entries[i].text]]

AcmeDone == doc = AcmeDoc /\ pc = "done" /\ result = "arraybuffer"

\* C16: for brandName "Acme" and the one section Overview / Intro /
\* "## Goals\n- Grow\n- Ship" the output has exactly 2 pages; page 1 starts
\* with the brand name in upper case, page 2 shows in this order the title,
\* the subtitle, the heading Goals, a bullet mark with Grow and a bullet mark
\* with Ship; no fit check has added a page.
C16_AcmeScenario ==
  AcmeDone =>
    /\ Len(pages) = 2
    /\ failedChecks = 0
    /\ Shown(log, 1)[1] = [kind |-> "cover", text |-> <<"A", "C", "M", "E">>]
    /\ pages[1].first = "cover"
    /\ Shown(log, 2) =
         <<[kind |-> "title", text |-> <<"O", "v", "e", "r", "v", "i", "e", "w">>],
           [kind |-> "subtitle", text |-> <<"I", "n", "t", "r", "o">>],
           [kind |-> "h2", text |-> <<"G", "o", "a", "l", "s">>],
           [kind |-> "bullet", text |-> <<"bullet mark">>],
           [kind |-> "bullet", text |-> <<"G", "r", "o", "w">>],
           [kind |-> "bullet", text |-> <<"bullet mark">>],
           [kind |-> "bullet", text |-> <<"S", "h", "i", "p">>]>>

C16_Witness == AcmeDone /\ Len(log) > 0 /\ log[Len(log)].text = <<"S", "h", "i", "p">>

\* C17 as stated: in the Acme scenario no footer is drawn on page 2.
C17_NoFooterOnPageTwo == AcmeDone => pages[2].footers = <<>>

\* C17: in the Acme scenario page 2 carries exactly one footer, "Page 1 of 1",
\* and the cover carries none.
C17_PageTwoFooter ==
  AcmeDone =>
    /\ pages[2].footers = <<[page |-> 1, of |-> 1]>>
    /\ pages[1].footers = <<>>

C17_Witness == AcmeDone /\ Len(pages) = 2 /\ Len(pages[2].footers) = 1

\* a step that draws one wrapped sub-line of a paragraph
DrawsSubline == pc = "para" /\ wrapIdx' = wrapIdx + 1

\* C21: each wrapped sub-line of a paragraph has its own fit check with
\* h = 18: it is drawn at the cursor on the current page exactly when
\* (pageHeight - 80) - y >= 18, and otherwise it starts a new page at the
\* margin while every earlier page, with the sub-lines drawn on it, stays as
\* it was; a sub-line that ends at least one unit short of the footer zone
\* adds no page, one that would reach into the zone does; either way the
\* cursor ends 18 below the draw.
C21_SublineFitCheck ==
  [][DrawsSubline =>
       LET fits == (PageHeight - 80 * Unit) - y >= 18 * Unit
       IN /\ lastDraw'.kind = "para"
          /\ fits => /\ Len(pages') = Len(pages)
                     /\ lastDraw'.page = curPage
                     /\ lastDraw'.y = y
          /\ ~fits => /\ Len(pages') = Len(pages) + 1
                      /\ lastDraw'.page = Len(pages')
                      /\ lastDraw'.y = Margin
                      /\ \A i \in 1..Len(pages) : pages'[i] = pages[i]
          /\ y + 18 * Unit + Unit <= PageHeight - 80 * Unit =>
               Len(pages') = Len(pages)
          /\ y + 18 * Unit > PageHeight - 80 * Unit =>
               Len(pages') = Len(pages) + 1
          /\ y' = lastDraw'.y + 18 * Unit]_vars

\* the second sub-line of a paragraph did not fit: it was moved to a new page
\* at the margin, after a first sub-line drawn on the page before
C21_Witness ==
  /\ pc = "para"
  /\ wrapIdx = 2
  /\ lastCheck.added
  /\ lastDraw.kind = "para"
  /\ lastDraw.y = Margin
  /\ lastDraw.page = Len(pages)
  /\ pages[Len(pages) - 1].first # "none"
  /\ failedChecks = 1

\* C22: the gray footer colour is in effect only for the footer draw: every
\* cover, title, subtitle and content draw happens with the text colour
\* (0,0,0) and leaves it so, a footer is drawn in gray and the colour is
\* (0,0,0) again right after it, and it is (0,0,0) when the buffer is
\* returned.
C22_GrayOnlyForFooter ==
  [][/\ lastDraw' # lastDraw /\ lastDraw'.kind # "footer" =>
          textColor = <<0, 0, 0>> /\ textColor' = <<0, 0, 0>>
     /\ lastDraw' # lastDraw /\ lastDraw'.kind = "footer" =>
          textColor = <<128, 128, 128>> /\ textColor' = <<0, 0, 0>>
     /\ pc' = "done" => result' = "arraybuffer" /\ textColor' = <<0, 0, 0>>]_vars

\* two footers have been stamped and the colour is the body colour
C22_Witness ==
  /\ pc = "footer"
  /\ footerI = 4
  /\ lastDraw.kind = "footer"
  /\ pages[3].footers # <<>>
  /\ textColor = <<0, 0, 0>>

\* ------------------------------------------- marker pairs, as specified
HasMarkerAt(text, i) ==
  i + 2 <= Len(text) /\ SubSeq(text, i + 1, i + 2) = <<"*", "*">>

\* the 0-based index of the first ** at or after from, or -1
FirstMarkerFrom(text, from) ==
  IF \E i \in from..Len(text) : HasMarkerAt(text, i)
  THEN CHOOSE i \in from..Len(text) :
         HasMarkerAt(text, i) /\ \A k \in from..(i - 1) : ~HasMarkerAt(text, k)
  ELSE -1

\* the markers paired left to right: an opening one with the next one after it
RECURSIVE MarkerPairs(_, _)
MarkerPairs(text, from) ==
  LET open == FirstMarkerFrom(text, from)
      close == IF open < 0 THEN -1 ELSE FirstMarkerFrom(text, open + 2)
  IN IF close < 0 THEN <<>>
     ELSE <<[open |-> open, close |-> close]>> \o MarkerPairs(text, close + 2)

\* what follows the last matched pair: it holds every unmatched marker
UnmatchedTail(text) ==
  LET pairs == MarkerPairs(text, 0)
  IN IF pairs = <<>> THEN text
     ELSE SubSeq(text, pairs[Len(pairs)].close + 3, Len(text))

BoldDraws(draws) == SelectSeq(draws, LAMBDA d : d.font = "bold")

\* C23: a ** that is not part of a matched pair is drawn as the characters
\* ** in normal weight: the text after the last matched pair, unmatched
\* markers included, is drawn as it is in normal weight, and the bold draws
\* are the insides of the matched pairs and nothing else.
C23_UnmatchedMarkerLiteral ==
  fPc = "done" =>
    LET pairs == MarkerPairs(fText, 0)
        tail == UnmatchedTail(fText)
        bolds == BoldDraws(fDraws)
    IN /\ Len(bolds) = Len(pairs)
       /\ \A k \in 1..Len(pairs) :
            bolds[k].text = SubSeq(fText, pairs[k].open + 3, pairs[k].close)
       /\ FirstMarkerFrom(tail, 0) >= 0 =>
            /\ fDraws[Len(fDraws)] = [text |-> tail, font |-> "normal",
                                      x |-> fDraws[Len(fDraws)].x, y |-> fY]
            /\ \A i \in 1..Len(fDraws) :
                 FirstMarkerFrom(fDraws[i].text, 0) >= 0 =>
                   fDraws[i].font = "normal" /\ fDraws[i].text = tail

\* a matched pair followed by a stray marker has been drawn
C23_Witness ==
  /\ fPc = "done"
  /\ Len(MarkerPairs(fText, 0)) = 1
  /\ FirstMarkerFrom(UnmatchedTail(fText), 0) >= 0
  /\ Len(BoldDraws(fDraws)) = 1

\* C24: every draw of one call of addFormattedText is at the y the caller
\* passed, which the call never changes; the call leaves the vertical cursor,
\* the current page and the pages as they are.
C24_CallerYKept ==
  [][fPc # "idle" =>
       /\ fY' = fY
       /\ \A i \in 1..Len(fDraws') : fDraws'[i].y = fY
       /\ y' = y
       /\ curPage' = curPage
       /\ pages' = pages]_vars

\* a call that drew text before a bold run, the run and text after it
C24_Witness ==
  /\ fPc = "done"
  /\ Len(fDraws) = 3
  /\ fDraws[2].font = "bold"
  /\ \A i \in 1..3 : fDraws[i].y = fY
  /\ fY = Margin + ParagraphLineHeight

\* a step in which a hide timeout hides the message that is shown
TimerHides == 0 \in hideTimers /\ 0 \notin hideTimers' /\ msgShown /\ ~msgShown'

\* C25: every message shown is hidden again without anyone's help; once the
\* observer has run for a show, the one pending hide timeout is due exactly
\* 5 seconds after that show, any older timeout being cancelled; a timeout
\* hides a message only when the message has been shown for its own 5
\* seconds.
C25_AutoHide ==
  /\ [](msgShown /\ ~obsPending => hideTimers = {5 - msgAge})
  /\ [][TimerHides => msgAge = 5]_vars
  /\ (msgShown ~> ~msgShown)

\* the one message shown so far has been hidden by its timeout
C25_Witness ==
  /\ msgType = "error"
  /\ ~msgShown
  /\ events = 1
  /\ uPc = "idle"
  /\ hideTimers = {}
  /\ ~obsPending

\* a step in which a convertDocument call ends
CallEnds == uPc \in {"fetch", "text", "blob"} /\ uPc' = "idle"

\* the loading state is entered before the request is sent and is in effect
\* until the call ends, which leaves it with exactly one message shown
LoadingFrame ==
  /\ uPc = "idle" /\ uPc' = "entered" => btnDisabled' /\ btnText' = "Converting..."
  /\ uPc = "entered" /\ uPc' = "fetch" => btnDisabled
  /\ uPc' \in {"fetch", "text", "blob"} => btnDisabled'
  /\ CallEnds =>
       /\ ~btnDisabled'
       /\ btnText' = "Convert to PDF"
       /\ ~barsShown'
       /\ fill' = 0
       /\ callMsgs' = 1
       /\ msgShown'
       /\ respOk'.ok \in {"yes", "no", "rejected"}

\* C26 as stated: every call enters the loading state before the request is
\* sent and leaves it when the request has settled, whatever the outcome,
\* with exactly one message: a success message and a form reset when the
\* response is ok, an error message and no form reset otherwise.
C26_OkMeansSuccess ==
  [][/\ LoadingFrame
     /\ CallEnds =>
          IF respOk'.ok = "yes"
          THEN msgType' = "success" /\ callResets' = 1
          ELSE msgType' = "error" /\ callResets' = 0]_vars

\* C26: every call enters the loading state before the request is sent and
\* leaves it when the request has settled, whatever the outcome, with exactly
\* one message: a success message and a form reset when the response is ok
\* and its body has been read, an error message and no form reset otherwise.
C26_LoadingAlwaysLeft ==
  [][/\ LoadingFrame
     /\ CallEnds =>
          IF respOk'.ok = "yes" /\ respOk'.body = "read"
          THEN msgType' = "success" /\ callResets' = 1
          ELSE msgType' = "error" /\ callResets' = 0]_vars

\* a call has ended with a success message and the form reset
C26_Witness ==
  /\ uPc = "idle"
  /\ respOk = [ok |-> "yes", body |-> "read"]
  /\ msgShown
  /\ msgType = "success"
  /\ callMsgs = 1
  /\ callResets = 1
  /\ ~btnDisabled
  /\ fill = 0

\* C30: outside the loading state the progress fill is 0%: no progress
\* interval changes it once setLoadingState(false) has reset it, until the
\* next conversion starts; and at most one progress interval is running.
C30_ProgressStopsWithLoading ==
  /\ uPc = "idle" => fill = 0
  /\ Len(intervals) <= 1

\* C27: a footer is drawn at pageHeight - margin/2, which is strictly inside
\* the footer zone (below pageHeight - 80, above the bottom edge), and every
\* heading, bullet and paragraph sub-line is drawn at a y strictly above
\* that, so on no page does a footer share a baseline with a content line.
C27_FooterBelowContent ==
  [][lastDraw' # lastDraw =>
       /\ lastDraw'.kind = "footer" =>
            /\ lastDraw'.y = PageHeight - 25 * Unit
            /\ lastDraw'.y > PageHeight - 80 * Unit
            /\ lastDraw'.y < PageHeight
            /\ lastDraw'.page >= 2
       /\ lastDraw'.kind \in ContentKinds =>
            lastDraw'.y < PageHeight - 25 * Unit]_vars

\* the footer of page 2 is stamped after a section that filled page 2 with
\* content lines until a fit check moved on to page 3
C27_Witness ==
  /\ lastDraw.kind = "footer"
  /\ lastDraw.page = 2
  /\ nSections = 1
  /\ failedChecks = 1
  /\ lineIdx = 2
  /\ Len(pages) = 3
  /\ pages[2].first = "title"
  /\ pages[3].first = "content"

\* every step that can be taken is taken in the end: generatePDF keeps running
SpecLive == Spec /\ WF_vars(Next)

\* a step of content processing adds at most one page, as the failed fit
\* check of a block drawn in the same step on the new page
OnePagePerCheck ==
  pc \in {"line", "para"} =>
    /\ Len(pages') \in {Len(pages), Len(pages) + 1}
    /\ Len(pages') = Len(pages) + 1 =>
         /\ failedChecks' = failedChecks + 1
         /\ lastDraw' # lastDraw
         /\ lastDraw'.kind \in ContentKinds
         /\ lastDraw'.page = Len(pages')
         /\ (lineIdx' = lineIdx + 1 \/ wrapIdx' = wrapIdx + 1)
    /\ lastDraw' = lastDraw => Len(pages') = Len(pages)

\* C28: generatePDF comes to an end, with a buffer or with its one error;
\* a step of content processing adds at most one page, and only as the
\* failed fit check of a block that the same step draws on the new page with
\* no further check; a blank line and the start and end of a paragraph add
\* none, so a line of k sub-lines adds at most k pages and a heading or a
\* bullet at most one.
C28_Terminates ==
  /\ <>(pc \in {"done", "error"})
  /\ [][OnePagePerCheck]_vars

\* a paragraph of two sub-lines is done and has added one page, the run has
\* come to its end
C28_Witness ==
  /\ pc = "done"
  /\ nSections = 1
  /\ wrapIdx = 2
  /\ failedChecks = 1
  /\ lastCheck = NoCheck
  /\ Len(pages) = 3

RECURSIVE NoSpaces(_)
NoSpaces(text) ==
  IF text = <<>> THEN <<>>
  ELSE IF Head(text) = " " THEN NoSpaces(Tail(text))
  ELSE <<Head(text)>> \o NoSpaces(Tail(text))

\* the insides of the matched pairs of a line, one after the other
RECURSIVE PairInsides(_, _)
PairInsides(text, pairs) ==
  IF pairs = <<>> THEN <<>>
  ELSE SubSeq(text, Head(pairs).open + 3, Head(pairs).close)
       \o PairInsides(text, Tail(pairs))

\* C29: when all wrapped sub-lines of a paragraph line are drawn, what is
\* drawn bold is what the matched pairs of the unwrapped line enclose (the
\* spaces the wrap dropped aside), and a ** is drawn only if the unwrapped
\* line has an unmatched one, wherever the wrap has split the line.
C29_WrapKeepsRuns ==
  wPc = "done" =>
    /\ NoSpaces(ConcatTexts(BoldDraws(wDraws)))
         = NoSpaces(PairInsides(wLine, MarkerPairs(wLine, 0)))
    /\ \A i \in 1..Len(wDraws) :
         FirstMarkerFrom(wDraws[i].text, 0) >= 0 =>
           FirstMarkerFrom(UnmatchedTail(wLine), 0) >= 0
====
